---- MODULE Spec2Model ----
(***************************************************************************)
(* Model of minitorch/nn.py: the neural-network primitives (tile, pooling, *)
(* argmax, Max, softmax, dropout, layer_norm, GELU, one_hot and the two    *)
(* unimplemented functions) over a strided tensor.                         *)
(*                                                                         *)
(* A tensor is a record [storage, shape, strides]; storage positions and   *)
(* indices are 0-based as in the code, TLA+ sequences are 1-based, hence   *)
(* the "+ 1" on every storage access.  Floating-point values are modelled  *)
(* by integers; values the code obtains with a division or with exp, log   *)
(* or tanh are kept as unevaluated terms <<"div", a, b>>, <<"exp", a>>, ...*)
(* Noise and dropout rates, reals of [0, 1), are counted in units of       *)
(* 1/NoiseDen.                                                             *)
(***************************************************************************)
EXTENDS Integers, Sequences, FiniteSets, TLC

\* ---------------------------------------------------------------- bounds
MaxBatch == 1
MaxChannel == 2
MaxHeight == 4
MaxWidth == 4
MaxSize == 4
MaxBinarySize == 8
MaxKernel == 2
MaxNoiseSize == 3
NoiseDen == 2
MaxClasses == 3
MaxIndexSize == 3

\* start value of the max reduction (-1e9)
Start == -1000000000

\* input values: below the start value, and two ordinary values
Vals == {2 * Start, 0, 1}

\* -------------------------------------------------------- tensor core
RECURSIVE prod(_)
prod(s) == IF s = <<>> THEN 1 ELSE Head(s) * prod(Tail(s))

RECURSIVE strides_from_shape(_)
strides_from_shape(shape) ==
    IF shape = <<>> THEN <<>>
    ELSE <<prod(Tail(shape))>> \o strides_from_shape(Tail(shape))

RECURSIVE index_to_position(_, _)
index_to_position(index, strides) ==
    IF index = <<>> THEN 0
    ELSE Head(index) * Head(strides) + index_to_position(Tail(index), Tail(strides))

RECURSIVE to_index(_, _)
to_index(ordinal, shape) ==
    IF shape = <<>> THEN <<>>
    ELSE LET inner == prod(Tail(shape))
         IN  <<(ordinal \div inner) % Head(shape)>> \o to_index(ordinal % inner, Tail(shape))

make(storage, shape) ==
    [storage |-> storage, shape |-> shape, strides |-> strides_from_shape(shape)]

get(t, index) == t.storage[index_to_position(index, t.strides) + 1]

contiguous(t) ==
    make([o \in 1 .. prod(t.shape) |-> get(t, to_index(o - 1, t.shape))], t.shape)

view(t, shape) == make(t.storage, shape)

permute(t, order) ==
    [storage |-> t.storage,
     shape   |-> [i \in 1 .. Len(order) |-> t.shape[order[i] + 1]],
     strides |-> [i \in 1 .. Len(order) |-> t.strides[order[i] + 1]]]

\* ------------------------------------------------------------- outcomes
\* What a call gives back to its caller: a status ("ok" or the exception),
\* the returned tensor (obj says whether it is the input object itself or a
\* newly made one), the other returned values, and for an AssertionError the
\* asserted expression.
NoTensor == [storage |-> <<>>, shape |-> <<>>, strides |-> <<>>]

Returned(t, extra) ==
    [status |-> "ok", obj |-> "new", value |-> t, extra |-> extra, failed |-> ""]

ReturnedInput(t) ==
    [status |-> "ok", obj |-> "input", value |-> t, extra |-> <<>>, failed |-> ""]

Raised(exc, expr) ==
    [status |-> exc, obj |-> "none", value |-> NoTensor, extra |-> <<>>, failed |-> expr]

\* ----------------------------------------------------------------- tile
\* tile without the permute: the blocks are never made contiguous
tile_no_permute(input, kernel) ==
    LET batch      == input.shape[1]
        channel    == input.shape[2]
        height     == input.shape[3]
        width      == input.shape[4]
        kh         == kernel[1]
        kw         == kernel[2]
        new_width  == width \div kw
        new_height == height \div kh
        x1 == view(contiguous(input), <<batch, channel, new_height, kh, new_width, kw>>)
        x3 == view(x1, <<batch, channel, new_height, new_width, kh * kw>>)
    IN  IF height % kh # 0 THEN Raised("AssertionError", "height % kh == 0")
        ELSE IF width % kw # 0 THEN Raised("AssertionError", "width % kw == 0")
        ELSE Returned(x3, <<new_height, new_width>>)

\* tile with the two assertions in the other order
tile_width_first(input, kernel) ==
    LET batch      == input.shape[1]
        channel    == input.shape[2]
        height     == input.shape[3]
        width      == input.shape[4]
        kh         == kernel[1]
        kw         == kernel[2]
        new_width  == width \div kw
        new_height == height \div kh
        x1 == view(contiguous(input), <<batch, channel, new_height, kh, new_width, kw>>)
        x2 == contiguous(permute(x1, <<0, 1, 2, 4, 3, 5>>))
        x3 == view(x2, <<batch, channel, new_height, new_width, kh * kw>>)
    IN  IF width % kw # 0 THEN Raised("AssertionError", "width % kw == 0")
        ELSE IF height % kh # 0 THEN Raised("AssertionError", "height % kh == 0")
        ELSE Returned(x3, <<new_height, new_width>>)

tile(input, kernel) ==
    LET batch      == input.shape[1]
        channel    == input.shape[2]
        height     == input.shape[3]
        width      == input.shape[4]
        kh         == kernel[1]
        kw         == kernel[2]
        new_width  == width \div kw
        new_height == height \div kh
        x1 == view(contiguous(input), <<batch, channel, new_height, kh, new_width, kw>>)
        x2 == contiguous(permute(x1, <<0, 1, 2, 4, 3, 5>>))
        x3 == view(x2, <<batch, channel, new_height, new_width, kh * kw>>)
    IN  IF height % kh # 0 THEN Raised("AssertionError", "height % kh == 0")
        ELSE IF width % kw # 0 THEN Raised("AssertionError", "width % kw == 0")
        ELSE Returned(x3, <<new_height, new_width>>)

\* ------------------------------------------------- broadcasting, map, zip
shape_broadcast(shape1, shape2) ==
    LET n      == IF Len(shape1) > Len(shape2) THEN Len(shape1) ELSE Len(shape2)
        pad(s) == [i \in 1 .. n |-> IF i <= n - Len(s) THEN 1 ELSE s[i - (n - Len(s))]]
    IN  [i \in 1 .. n |-> IF pad(shape1)[i] = 1 THEN pad(shape2)[i] ELSE pad(shape1)[i]]

broadcast_index(big_index, shape) ==
    [i \in 1 .. Len(shape) |->
        IF shape[i] > 1 THEN big_index[i + (Len(big_index) - Len(shape))] ELSE 0]

operators_max(x, y) == IF x > y THEN x ELSE y
operators_eq(x, y)  == IF x = y THEN 1 ELSE 0
operators_lt(x, y)  == IF x < y THEN 1 ELSE 0
operators_mul(x, y) == x * y
operators_sub(x, y) == x - y

\* The elementwise functions, by name.  A value that is not computed (a
\* quotient, a sum or difference of such values, exp, log, the GELU formula)
\* is the term <<name, arguments>>.
apply_map(fn, x) == <<fn, x>>

apply_zip(fn, x, y) ==
    CASE fn = "eq"  -> operators_eq(x, y)
      [] fn = "lt"  -> operators_lt(x, y)
      [] fn = "mul" -> operators_mul(x, y)
      [] fn = "sub" -> operators_sub(x, y)
      [] OTHER      -> <<fn, x, y>>

map(fn, a) ==
    make([o \in 1 .. prod(a.shape) |-> apply_map(fn, get(a, to_index(o - 1, a.shape)))],
         a.shape)

zip(fn, a, b) ==
    LET shape == shape_broadcast(a.shape, b.shape)
    IN  make([o \in 1 .. prod(shape) |->
                 LET index == to_index(o - 1, shape)
                 IN  apply_zip(fn, get(a, broadcast_index(index, a.shape)),
                                   get(b, broadcast_index(index, b.shape)))],
             shape)

\* a number as a tensor of shape (1,)
scalar(v) == make(<<v>>, <<1>>)

\* the values of a along dim at the position out_index of the other axes
Slice(a, out_index, dim) ==
    [j \in 1 .. a.shape[dim + 1] |-> get(a, [out_index EXCEPT ![dim + 1] = j - 1])]

reduce_shape(a, dim) == [a.shape EXCEPT ![dim + 1] = 1]

\* ----------------------------------------------------------- reductions
RECURSIVE tensor_reduce_max(_, _, _, _, _)
tensor_reduce_max(accum, a, out_index, dim, j) ==
    IF j = a.shape[dim + 1] THEN accum
    ELSE tensor_reduce_max(
             operators_max(accum, get(a, [out_index EXCEPT ![dim + 1] = j])),
             a, out_index, dim, j + 1)

\* FastOps.reduce(operators.max, -1e9): every output cell starts at Start
max_reduce(a, dim) ==
    LET out_shape == reduce_shape(a, dim)
    IN  make([o \in 1 .. prod(out_shape) |->
                 tensor_reduce_max(Start, a, to_index(o - 1, out_shape), dim, 0)],
             out_shape)

\* Tensor.sum(dim), as a term over the reduced slice
term_sum(a, dim) ==
    LET out_shape == reduce_shape(a, dim)
    IN  make([o \in 1 .. prod(out_shape) |->
                 <<"sum", Slice(a, to_index(o - 1, out_shape), dim)>>],
             out_shape)

\* Tensor.mean(dim) = sum(dim) / shape[dim]; an axis the tensor does not
\* have is an index error
mean(a, dim) ==
    IF dim >= Len(a.shape) THEN Raised("IndexError", "")
    ELSE Returned(zip("div", term_sum(a, dim), scalar(a.shape[dim + 1])), <<>>)

\* Tensor.var(dim), as a term over the reduced slice
var(a, dim) ==
    IF dim >= Len(a.shape) THEN Raised("IndexError", "")
    ELSE LET out_shape == reduce_shape(a, dim)
         IN  Returned(make([o \in 1 .. prod(out_shape) |->
                               <<"var", Slice(a, to_index(o - 1, out_shape), dim)>>],
                           out_shape), <<>>)

\* ------------------------------------------------------------ avgpool2d
avgpool2d(input, kernel) ==
    LET batch   == input.shape[1]
        channel == input.shape[2]
        tiled   == tile(input, kernel)
        x          == tiled.value
        new_height == tiled.extra[1]
        new_width  == tiled.extra[2]
    IN  IF tiled.status # "ok" THEN tiled
        ELSE Returned(view(mean(x, 4).value, <<batch, channel, new_height, new_width>>), <<>>)

\* --------------------------------------------------------- argmax, Max
argmax(input, dim) ==
    LET out == max_reduce(input, dim)
    IN  Returned(zip("eq", out, input), <<>>)

Max_forward(input, dim) == max_reduce(input, dim)

\* saved is ctx.saved_values, the pair <<input, out>>
Max_backward(saved, grad_output) ==
    LET input == saved[1]
        out   == saved[2]
    IN  Returned(zip("mul", zip("eq", out, input), grad_output), <<0>>)

max(input, dim) == Returned(Max_forward(input, dim), <<>>)

\* ----------------------------------------------------------- softmax
softmax(input, dim) ==
    LET e         == map("exp", zip("sub", input, Max_forward(input, dim)))
        partition == term_sum(e, dim)
    IN  Returned(zip("div", e, partition), <<>>)

logsoftmax(input, dim) ==
    LET e   == input
        mx  == Max_forward(e, dim)
        lse == zip("add", map("log", term_sum(map("exp", zip("sub", e, mx)), dim)), mx)
    IN  Returned(zip("term_sub", e, lse), <<>>)

\* ------------------------------------------------------------ maxpool2d
maxpool2d(input, kernel) ==
    LET batch   == input.shape[1]
        channel == input.shape[2]
        tiled   == tile(input, kernel)
        x          == tiled.value
        new_height == tiled.extra[1]
        new_width  == tiled.extra[2]
    IN  IF tiled.status # "ok" THEN tiled
        ELSE Returned(view(max(x, 4).value, <<batch, channel, new_height, new_width>>), <<>>)

\* -------------------------------------------------------------- dropout
\* dropout that copies the input when ignore is set
dropout_copies(input, rate, ignore, r) ==
    IF ignore THEN Returned(contiguous(input), <<>>)
    ELSE LET drop == zip("lt", scalar(rate), r)
         IN  Returned(zip("mul", input, drop), <<>>)

\* r is the tensor rand(input.shape) drew
dropout(input, rate, ignore, r) ==
    IF ignore THEN ReturnedInput(input)
    ELSE LET drop == zip("lt", scalar(rate), r)
         IN  Returned(zip("mul", input, drop), <<>>)

\* ----------------------------------------------------------- layer_norm
Eps == <<1, 100000>>

layer_norm(input, eps) ==
    IF Len(input.shape) # 4 THEN Raised("ValueError", "")
    ELSE LET batch    == input.shape[1]
             channel  == input.shape[2]
             height   == input.shape[3]
             width    == input.shape[4]
             m        == mean(input, 4)
             v        == var(input, 4)
             shape4   == <<batch, channel, height, width>>
         IN  IF m.status # "ok" THEN m
             ELSE IF v.status # "ok" THEN v
             ELSE Returned(zip("div",
                               zip("term_sub", input, view(m.value, shape4)),
                               zip("add", view(v.value, shape4), scalar(eps))),
                           <<>>)

\* ----------------------------------------------------------------- GELU
GELU(input) == Returned(map("gelu", input), <<>>)

\* -------------------------------------------------------------- one_hot
\* np.eye(num_classes)
eye(n) == [i \in 1 .. n |-> [j \in 1 .. n |-> IF i = j THEN 1 ELSE 0]]

\* one_hot that reads the identity matrix one row too far
one_hot_shifted(input, num_classes) ==
    LET indices == contiguous(input).storage
        n       == num_classes
        row(k)  == eye(n)[(((IF k < 0 THEN k + n ELSE k) + 1) % n) + 1]
    IN  IF \E i \in 1 .. Len(indices) : indices[i] < -n \/ indices[i] >= n
        THEN Raised("IndexError", "")
        ELSE Returned(make([o \in 1 .. Len(indices) * n |->
                               row(indices[((o - 1) \div n) + 1])[((o - 1) % n) + 1]],
                           input.shape \o <<n>>), <<>>)

\* np.eye(num_classes)[indices]: a negative index counts from the end, an
\* index outside -n .. n-1 is an index error
one_hot(input, num_classes) ==
    LET indices == contiguous(input).storage
        n       == num_classes
        row(k)  == eye(n)[(IF k < 0 THEN k + n ELSE k) + 1]
    IN  IF \E i \in 1 .. Len(indices) : indices[i] < -n \/ indices[i] >= n
        THEN Raised("IndexError", "")
        ELSE Returned(make([o \in 1 .. Len(indices) * n |->
                               row(indices[((o - 1) \div n) + 1])[((o - 1) % n) + 1]],
                           input.shape \o <<n>>), <<>>)

\* ------------------------------------------------ logsumexp, softmax_loss
\* logsumexp filled in with a reduction
logsumexp_returns(input, dim) == Returned(max_reduce(input, dim), <<>>)

logsumexp(input, dim) == Raised("NotImplementedError", "")

softmax_loss(logits, target) == Raised("NotImplementedError", "")

\* --------------------------------------------------------------- inputs
Shapes4(size) ==
    {s \in (1 .. MaxBatch) \X (1 .. MaxChannel) \X (1 .. MaxHeight) \X (1 .. MaxWidth) :
        prod(s) <= size}

TensorsOf(shape, vals) == {make(s, shape) : s \in [1 .. prod(shape) -> vals]}

\* 4-D inputs of up to MaxSize elements
Inputs == UNION {TensorsOf(sh, Vals) : sh \in Shapes4(MaxSize)}

\* inputs of the tiling operations: Inputs, and 0/1 images of up to MaxBinarySize
Images ==
    Inputs \cup UNION {TensorsOf(sh, {0, 1}) : sh \in Shapes4(MaxBinarySize) \ Shapes4(MaxSize)}

\* inputs of dropout with noise
DropInputs == UNION {TensorsOf(sh, {0, 1}) : sh \in Shapes4(MaxNoiseSize)}

\* index tensors of rank 1 and 2, entries from -1 to MaxClasses
IndexShapes ==
    {<<n>> : n \in 1 .. MaxIndexSize}
    \cup {s \in (1 .. MaxIndexSize) \X (1 .. MaxIndexSize) : prod(s) <= MaxIndexSize}

IndexTensors == UNION {TensorsOf(sh, -1 .. MaxClasses) : sh \in IndexShapes}

Targets == TensorsOf(<<1>>, 0 .. (MaxClasses - 1))

Kernels == (1 .. MaxKernel) \X (1 .. MaxKernel)

Dims == 0 .. 3

Rates == 0 .. (NoiseDen - 1)

\* what rand(shape) can draw: every value of [0, 1), 0 included
Noises(shape) == TensorsOf(shape, 0 .. (NoiseDen - 1))

\* upstream gradients of the shape of Max.forward's output
Grads(shape) == TensorsOf(shape, {1, 2})

Call(op, kernel, dim, rate, ignore, num_classes) ==
    [op |-> op, kernel |-> kernel, dim |-> dim, rate |-> rate, ignore |-> ignore,
     num_classes |-> num_classes]

TileCalls == {Call(op, k, 0, 0, FALSE, 0) : op \in {"tile", "maxpool2d"}, k \in Kernels}

AvgCalls == {Call("avgpool2d", k, 0, 0, FALSE, 0) : k \in Kernels}

DimCalls ==
    {Call(op, <<1, 1>>, d, 0, FALSE, 0) :
        op \in {"argmax", "max", "softmax", "logsoftmax", "logsumexp"}, d \in Dims}

PlainCalls == {Call(op, <<1, 1>>, 0, 0, FALSE, 0) : op \in {"GELU", "layer_norm"}}

IgnoreCalls == {Call("dropout", <<1, 1>>, 0, r, TRUE, 0) : r \in Rates}

DropCalls == {Call("dropout", <<1, 1>>, 0, r, FALSE, 0) : r \in Rates}

BackwardCalls == {Call("max_backward", <<1, 1>>, d, 0, FALSE, 0) : d \in Dims}

OneHotCalls == {Call("one_hot", <<1, 1>>, 0, 0, FALSE, n) : n \in 1 .. MaxClasses}

LossCalls == {Call("softmax_loss", <<1, 1>>, 0, 0, FALSE, 0)}

\* ---------------------------------------------------------------- state
VARIABLES
    heap,     \* the tensor objects the caller can see; heap[1] is the input
    aux,      \* the second tensor of the call: target, or the drawn noise or gradient
    call,     \* the operation called and its non-tensor arguments
    pc,       \* "call" before the operation ran, "forward" between Max.forward
              \* and Max.backward, "done" after
    status,   \* "none", "ok" or the exception the call ended with
    ret,      \* heap index of the returned tensor, 0 when none
    extra,    \* the other returned values
    failed,   \* the asserted expression of an AssertionError
    ctx       \* Context.saved_values, as heap indices

vars == <<heap, aux, call, pc, status, ret, extra, failed, ctx>>

input == heap[1]

Finish(outcome) ==
    /\ pc' = "done"
    /\ status' = outcome.status
    /\ extra' = outcome.extra
    /\ failed' = outcome.failed
    /\ heap' = IF outcome.obj = "new" THEN Append(heap, outcome.value) ELSE heap
    /\ ret' = CASE outcome.obj = "new" -> Len(heap) + 1
                [] outcome.obj = "input" -> 1
                [] OTHER -> 0
    /\ UNCHANGED call

Init ==
    /\ pc = "call"
    /\ status = "none"
    /\ ret = 0
    /\ extra = <<>>
    /\ failed = ""
    /\ ctx = <<>>
    /\ \/ /\ call \in TileCalls
          /\ heap \in {<<x>> : x \in Images}
          /\ aux = NoTensor
       \/ /\ call \in AvgCalls \cup DimCalls \cup PlainCalls \cup IgnoreCalls \cup BackwardCalls
          /\ heap \in {<<x>> : x \in Inputs}
          /\ aux = NoTensor
       \/ /\ call \in DropCalls
          /\ heap \in {<<x>> : x \in DropInputs}
          /\ aux = NoTensor
       \/ /\ call \in OneHotCalls
          /\ heap \in {<<x>> : x \in IndexTensors}
          /\ aux = NoTensor
       \/ /\ call \in LossCalls
          /\ heap \in {<<x>> : x \in Inputs}
          /\ aux \in Targets

Tile ==
    /\ pc = "call"
    /\ call.op = "tile"
    /\ Finish(tile(input, call.kernel))
    /\ UNCHANGED <<aux, ctx>>

AvgPool2d ==
    /\ pc = "call"
    /\ call.op = "avgpool2d"
    /\ Finish(avgpool2d(input, call.kernel))
    /\ UNCHANGED <<aux, ctx>>

ArgMax ==
    /\ pc = "call"
    /\ call.op = "argmax"
    /\ Finish(argmax(input, call.dim))
    /\ UNCHANGED <<aux, ctx>>

\* max(input, dim) = Max.apply: Max.forward, which saves <<input, out>>
MaxForward ==
    /\ pc = "call"
    /\ call.op \in {"max", "max_backward"}
    /\ heap' = Append(heap, max(input, call.dim).value)
    /\ ctx' = <<1, Len(heap) + 1>>
    /\ ret' = Len(heap) + 1
    /\ status' = "ok"
    /\ pc' = IF call.op = "max" THEN "done" ELSE "forward"
    /\ UNCHANGED <<aux, call, extra, failed>>

MaxBackward ==
    /\ pc = "forward"
    /\ \E grad_output \in Grads(heap[ctx[2]].shape) :
          /\ aux' = grad_output
          /\ Finish(Max_backward(<<heap[ctx[1]], heap[ctx[2]]>>, grad_output))
    /\ UNCHANGED ctx

Softmax ==
    /\ pc = "call"
    /\ call.op = "softmax"
    /\ Finish(softmax(input, call.dim))
    /\ UNCHANGED <<aux, ctx>>

LogSoftmax ==
    /\ pc = "call"
    /\ call.op = "logsoftmax"
    /\ Finish(logsoftmax(input, call.dim))
    /\ UNCHANGED <<aux, ctx>>

MaxPool2d ==
    /\ pc = "call"
    /\ call.op = "maxpool2d"
    /\ Finish(maxpool2d(input, call.kernel))
    /\ UNCHANGED <<aux, ctx>>

Dropout ==
    /\ pc = "call"
    /\ call.op = "dropout"
    /\ IF call.ignore
       THEN /\ Finish(dropout(input, call.rate, TRUE, NoTensor))
            /\ UNCHANGED aux
       ELSE \E r \in Noises(input.shape) :
               /\ aux' = r
               /\ Finish(dropout(input, call.rate, FALSE, r))
    /\ UNCHANGED ctx

LayerNorm ==
    /\ pc = "call"
    /\ call.op = "layer_norm"
    /\ Finish(layer_norm(input, Eps))
    /\ UNCHANGED <<aux, ctx>>

Gelu ==
    /\ pc = "call"
    /\ call.op = "GELU"
    /\ Finish(GELU(input))
    /\ UNCHANGED <<aux, ctx>>

OneHot ==
    /\ pc = "call"
    /\ call.op = "one_hot"
    /\ Finish(one_hot(input, call.num_classes))
    /\ UNCHANGED <<aux, ctx>>

LogSumExp ==
    /\ pc = "call"
    /\ call.op = "logsumexp"
    /\ Finish(logsumexp(input, call.dim))
    /\ UNCHANGED <<aux, ctx>>

SoftmaxLoss ==
    /\ pc = "call"
    /\ call.op = "softmax_loss"
    /\ Finish(softmax_loss(input, aux))
    /\ UNCHANGED <<aux, ctx>>

Next ==
    \/ Tile
    \/ AvgPool2d
    \/ ArgMax
    \/ MaxForward
    \/ MaxBackward
    \/ Softmax
    \/ LogSoftmax
    \/ MaxPool2d
    \/ Dropout
    \/ LayerNorm
    \/ Gelu
    \/ OneHot
    \/ LogSumExp
    \/ SoftmaxLoss

Spec == Init /\ [][Next]_vars

\* ------------------------------------------------------------ properties
AllIndices(shape) == {to_index(o, shape) : o \in 0 .. (prod(shape) - 1)}

\* the greatest value of a along dim at the position index of the other axes
SliceMax(a, index, dim) ==
    LET s == Slice(a, index, dim)
    IN  CHOOSE m \in {s[j] : j \in 1 .. Len(s)} : \A j \in 1 .. Len(s) : m >= s[j]

Done(op) == pc = "done" /\ call.op = op

Height == input.shape[3]
Width  == input.shape[4]
Kh     == call.kernel[1]
Kw     == call.kernel[2]
Divisible == Height % Kh = 0 /\ Width % Kw = 0

\* C1: for a kernel dividing H and W, tile returns new_height = H/kh, new_width =
\* W/kw and a tensor of shape (batch, channel, H/kh, W/kw, kh*kw) whose element
\* [b, c, i, j, p*kw + q] is input[b, c, i*kh + p, j*kw + q]; undoing the view and
\* the permute gives the input back.
C1_TileLayout ==
    (Done("tile") /\ Divisible) =>
        LET nh == Height \div Kh
            nw == Width \div Kw
            b4 == input.shape[1]
            c4 == input.shape[2]
            x  == heap[ret]
        IN  /\ status = "ok"
            /\ ret = 2
            /\ extra = <<nh, nw>>
            /\ x.shape = <<b4, c4, nh, nw, Kh * Kw>>
            /\ \A b \in 0 .. (b4 - 1), c \in 0 .. (c4 - 1), i \in 0 .. (nh - 1),
                  j \in 0 .. (nw - 1), p \in 0 .. (Kh - 1), q \in 0 .. (Kw - 1) :
                  get(x, <<b, c, i, j, p * Kw + q>>)
                      = get(input, <<b, c, i * Kh + p, j * Kw + q>>)
            /\ view(contiguous(permute(view(x, <<b4, c4, nh, nw, Kh, Kw>>),
                                       <<0, 1, 2, 4, 3, 5>>)),
                    <<b4, c4, Height, Width>>) = input

\* a tiling that moves elements: several tiles per row, each of several rows
C1_Witness ==
    /\ Done("tile") /\ status = "ok"
    /\ Kh > 1 /\ Kw > 1 /\ Width \div Kw > 1
    /\ heap[ret].storage # input.storage

\* C2: argmax returns a 0/1 tensor of the input's shape with 1 exactly where the
\* input value is the maximum of its slice along dim, for all input values.
C2_ArgmaxMask ==
    Done("argmax") =>
        /\ status = "ok"
        /\ heap[ret].shape = input.shape
        /\ \A index \in AllIndices(input.shape) :
              get(heap[ret], index)
                  = IF get(input, index) = SliceMax(input, index, call.dim) THEN 1 ELSE 0

\* C3: Max.backward returns the pair (gradient, 0.0); the gradient has the input's
\* shape, with grad_output (broadcast along dim) where the input value is the
\* maximum of its slice and 0 elsewhere.
C3_MaxBackward ==
    Done("max_backward") =>
        /\ status = "ok"
        /\ extra = <<0>>
        /\ heap[ret].shape = input.shape
        /\ \A index \in AllIndices(input.shape) :
              get(heap[ret], index)
                  = IF get(input, index) = SliceMax(input, index, call.dim)
                    THEN get(aux, [index EXCEPT ![call.dim + 1] = 0])
                    ELSE 0

\* C4: for a kernel dividing H and W, maxpool2d returns a tensor of shape
\* (batch, channel, H/kh, W/kw) whose element [b, c, i, j] is the maximum of the
\* input values input[b, c, i*kh + p, j*kw + q].
C4_MaxPool ==
    (Done("maxpool2d") /\ Divisible) =>
        LET nh == Height \div Kh
            nw == Width \div Kw
            b4 == input.shape[1]
            c4 == input.shape[2]
            block(b, c, i, j) ==
                {get(input, <<b, c, i * Kh + p, j * Kw + q>>) :
                    p \in 0 .. (Kh - 1), q \in 0 .. (Kw - 1)}
        IN  /\ status = "ok"
            /\ heap[ret].shape = <<b4, c4, nh, nw>>
            /\ \A b \in 0 .. (b4 - 1), c \in 0 .. (c4 - 1), i \in 0 .. (nh - 1),
                  j \in 0 .. (nw - 1) :
                  /\ get(heap[ret], <<b, c, i, j>>) \in block(b, c, i, j)
                  /\ \A v \in block(b, c, i, j) : get(heap[ret], <<b, c, i, j>>) >= v

\* C5: dropout(x, rate=0, ignore=False) equals x elementwise whatever noise was
\* drawn from [0, 1).
C5_DropoutRateZero ==
    (Done("dropout") /\ ~call.ignore /\ call.rate = 0) =>
        /\ status = "ok"
        /\ heap[ret].shape = input.shape
        /\ \A index \in AllIndices(input.shape) : get(heap[ret], index) = get(input, index)

\* C6: for indices k with 0 <= k < num_classes, one_hot returns a tensor of shape
\* S + (num_classes,) whose row for k has 1 at position k and 0 elsewhere.
InRange == \A index \in AllIndices(input.shape) :
               0 <= get(input, index) /\ get(input, index) < call.num_classes

C6_OneHotRows ==
    (Done("one_hot") /\ InRange) =>
        /\ status = "ok"
        /\ heap[ret].shape = input.shape \o <<call.num_classes>>
        /\ \A index \in AllIndices(input.shape), c \in 0 .. (call.num_classes - 1) :
              get(heap[ret], index \o <<c>>) = IF c = get(input, index) THEN 1 ELSE 0

\* rows for two different classes
C6_Witness ==
    /\ Done("one_hot") /\ InRange /\ status = "ok"
    /\ \E i, j \in AllIndices(input.shape) : get(input, i) = 0 /\ get(input, j) > 1

\* C7: layer_norm on a 4-D input returns a tensor of the input's shape whose
\* elements are (input - mean) / (variance + eps), mean and variance taken over
\* the element's slice along the last axis.
C7_LayerNorm ==
    Done("layer_norm") =>
        /\ status = "ok"
        /\ heap[ret] = zip("div",
                           zip("term_sub", input, mean(input, 3).value),
                           zip("add", var(input, 3).value, scalar(Eps)))

\* C8: every call of logsumexp and of softmax_loss ends in a not-implemented
\* failure and returns no value.
C8_NotImplemented ==
    call.op \in {"logsumexp", "softmax_loss"} =>
        /\ status \in {"none", "NotImplementedError"}
        /\ ret = 0
        /\ Len(heap) = 1
        /\ pc = "done" => status = "NotImplementedError"

C8_Witness == Done("logsumexp") /\ status = "NotImplementedError"

\* C9: tile, avgpool2d and maxpool2d end in an assertion failure, returning no
\* tensor, whenever H % kh # 0 or W % kw # 0; the height is checked before the
\* width and both before anything is reshaped; when both divide, no assertion
\* fails.
C9_TileAssertions ==
    (pc = "done" /\ call.op \in {"tile", "avgpool2d", "maxpool2d"}) =>
        /\ Height % Kh # 0 =>
              status = "AssertionError" /\ failed = "height % kh == 0"
        /\ (Height % Kh = 0 /\ Width % Kw # 0) =>
              status = "AssertionError" /\ failed = "width % kw == 0"
        /\ status = "AssertionError" => ret = 0 /\ Len(heap) = 1 /\ extra = <<>>
        /\ Divisible => status = "ok" /\ failed = ""

\* neither dimension divides: the height assertion is the one that fails
C9_Witness ==
    /\ Done("maxpool2d") /\ Height % Kh # 0 /\ Width % Kw # 0
    /\ status = "AssertionError" /\ failed = "height % kh == 0"

\* C10: every operation leaves its input tensor unchanged and returns a new tensor
\* distinct from the input object, dropout with ignore=True included.
FrameOps ==
    {"tile", "avgpool2d", "argmax", "max", "softmax", "logsoftmax", "maxpool2d",
     "dropout", "GELU", "one_hot"}

C10_AlwaysNewTensor ==
    [][(pc' = "done" /\ call.op \in FrameOps) =>
          /\ heap'[1] = heap[1]
          /\ status' = "ok" => ret' # 1]_vars

\* C10, amended: every operation leaves its input tensor unchanged; one that
\* returns a tensor returns a new one, distinct from the input object, except
\* dropout with ignore=True, which returns the input object itself.
C10_NewTensorUnlessIgnored ==
    [][(pc' = "done" /\ call.op \in FrameOps) =>
          /\ heap'[1] = heap[1]
          /\ status' = "ok" =>
                IF call.op = "dropout" /\ call.ignore
                THEN ret' = 1 /\ heap' = heap
                ELSE ret' = Len(heap) + 1 /\ Len(heap') = Len(heap) + 1]_vars

C10_Witness == Done("dropout") /\ call.ignore /\ status = "ok" /\ ret = 1

====
